---- MODULE Spec2Model ----
(***************************************************************************)
(* Model of src/app.ts: the PublishSubscribeService dispatcher (subscribe, *)
(* publish with its drain loop, unsubscribe), the machine subscribers, the *)
(* StockWarningSubscriber and the StockAlertLogger, and the program that   *)
(* wires them.                                                             *)
(*                                                                         *)
(* publish is modelled with its call stack: a publish that starts a drain  *)
(* pushes the caller's frame on `stack` and the drain's exit pops it, so   *)
(* that the number of drain loops that are active is Len(stack).           *)
(*                                                                         *)
(* Five specifications share the dispatcher's actions:                     *)
(*   Spec        the service with arbitrary ISubscriber implementations,   *)
(*               whose handle may publish, subscribe, unsubscribe, return  *)
(*               or throw;                                                 *)
(*   TableSpec   the subscription table alone, every call recorded;        *)
(*   FaultSpec   the service with events whose type() may throw;           *)
(*   ProgramSpec the program's wiring and its concrete subscribers;        *)
(*   CrossSpec   the program's subscribers, also subscribed to the kinds   *)
(*               they ignore.                                              *)
(***************************************************************************)
EXTENDS Integers, Sequences, FiniteSets, TLC

VARIABLES
    subscribers,  \* PublishSubscribeService.subscribers: type -> list of handlers
    queue,        \* PublishSubscribeService.queue
    processing,   \* PublishSubscribeService.processing
    stockLevel,   \* Machine.stockLevel of each machine
    below,        \* StockWarningSubscriber.below
    out,          \* the lines StockAlertLogger wrote to the console
    testMode,     \* args.includes('--test')
    pc,           \* control point: "idle", "loop", "for", "handler"
    next,         \* publish's local `next`: the event popped last
    snap,         \* the copy [...list] the for loop iterates over
    idx,          \* position of the for loop in its list (1-based)
    calls,        \* service calls made so far by the running handler
    stack,        \* frames of the callers suspended in a publish that drains
    enqCount,     \* history: number of events pushed so far
    popCount,     \* history: number of events shifted so far
    nPublished,   \* history: number of top-level publish calls so far
    invoked,      \* history: handlers invoked with `next` so far
    listAtPop,    \* history: the subscriber list of next's type when popped
    threwAt,      \* history: positions of the for loop whose handler threw
    unsubbed,     \* history: <<type, handler>> unsubscribed, not subscribed since
    unsubBefore,  \* history: those of unsubbed that preceded the last pop
    alerts,       \* history: the alert events StockWarningSubscriber published
    net,          \* history: refills minus sales published so far, per machine
    escaped,      \* history: the last publish made outside handlers threw
    resid,        \* history: events pushed before the last such publish began
    lastCall      \* history: the last subscribe/unsubscribe call and its arguments

vars == <<subscribers, queue, processing, stockLevel, below, out, testMode,
          pc, next, snap, idx, calls, stack, enqCount, popCount, nPublished,
          invoked, listAtPop, threwAt, unsubbed, unsubBefore, alerts, net,
          escaped, resid, lastCall>>

machineVars == <<stockLevel, below, out, alerts>>
callVars == <<net, escaped, resid, lastCall>>
frameVars == <<next, snap, idx, invoked, listAtPop, threwAt>>

----------------------------------------------------------------------------
(* Bounds of the model *)

MaxSubscriptions == 2   \* entries of the subscription table, all lists together
MaxEvents == 3          \* events pushed in a run of Spec
MaxCalls == 1           \* service calls of one invocation of an arbitrary handler
MaxPublishes == 6       \* top-level publishes of a run of ProgramSpec without --test

(* Program constants *)

InitialStock == 10
Threshold == 3

Types == {"sale", "refill", "low-stock", "stock-ok"}
MachineIds == {"001", "002", "003"}
UnknownIds == {"999"}

----------------------------------------------------------------------------
(* Events: the four IEvent classes. uid stands for the object's identity:  *)
(* the n-th event pushed on the queue carries uid n.                       *)

MachineSaleEvent(sold, machineId, uid) ==
    [type |-> "sale", machineId |-> machineId, qty |-> sold, uid |-> uid]

MachineRefillEvent(refill, machineId, uid) ==
    [type |-> "refill", machineId |-> machineId, qty |-> refill, uid |-> uid]

LowStockWarningEvent(machineId, uid) ==
    [type |-> "low-stock", machineId |-> machineId, qty |-> 0, uid |-> uid]

StockLevelOkEvent(machineId, uid) ==
    [type |-> "stock-ok", machineId |-> machineId, qty |-> 0, uid |-> uid]

\* an implementation of IEvent whose type() throws
ThrowingEvent(uid) ==
    [type |-> "throws", machineId |-> "none", qty |-> 0, uid |-> uid]

\* the value of lastCall while no call of subscribe/unsubscribe is recorded
NoCall == [op |-> "none", type |-> "none", handler |-> "none", flip |-> FALSE]

\* the value of `next` while no event has been popped by the running drain
NoEvent == [type |-> "none", machineId |-> "none", qty |-> 0, uid |-> 0]

----------------------------------------------------------------------------
(* PublishSubscribeService: the subscription table *)

\* this.subscribers.get(type) ?? []
ListOf(type) == IF type \in DOMAIN subscribers THEN subscribers[type] ELSE <<>>

\* this.subscribers.set(type, list)
MapSet(type, list) ==
    [t \in (DOMAIN subscribers) \cup {type} |->
        IF t = type THEN list ELSE subscribers[t]]

\* this.subscribers.set(type, []) in the place of delete(type)
MapDeleteKeepsEmpty(type) ==
    [t \in DOMAIN subscribers |-> IF t = type THEN <<>> ELSE subscribers[t]]

\* this.subscribers.delete(type)
MapDelete(type) == [t \in (DOMAIN subscribers) \ {type} |-> subscribers[t]]

TotalSubscriptions ==
    Len(ListOf("sale")) + Len(ListOf("refill"))
        + Len(ListOf("low-stock")) + Len(ListOf("stock-ok"))

\* a subscribe that skips a handler the list already holds
subscribeUnique(type, handler) ==
    /\ subscribers' =
           IF \E i \in 1..Len(ListOf(type)) : ListOf(type)[i] = handler
           THEN subscribers
           ELSE MapSet(type, Append(ListOf(type), handler))
    /\ unsubbed' = unsubbed \ {<<type, handler>>}
    /\ unsubBefore' = unsubBefore \ {<<type, handler>>}

\* subscribe(type, handler)
subscribe(type, handler) ==
    /\ subscribers' = MapSet(type, Append(ListOf(type), handler))
    /\ unsubbed' = unsubbed \ {<<type, handler>>}
    /\ unsubBefore' = unsubBefore \ {<<type, handler>>}

\* a filter that removes the first occurrence only
FilteredFirstOnly(list, handler) ==
    LET at == {i \in 1..Len(list) : list[i] = handler}
    IN IF at = {} THEN list
       ELSE LET k == CHOOSE i \in at : \A j \in at : i <= j
            IN SubSeq(list, 1, k - 1) \o SubSeq(list, k + 1, Len(list))

\* list.filter((h) => h !== handler)
Filtered(list, handler) == SelectSeq(list, LAMBDA h : h # handler)

\* unsubscribe(type, handler)
unsubscribe(type, handler) ==
    /\ subscribers' =
           IF type \notin DOMAIN subscribers THEN subscribers
           ELSE IF Len(Filtered(subscribers[type], handler)) = 0
                THEN MapDelete(type)
                ELSE MapSet(type, Filtered(subscribers[type], handler))
    /\ unsubbed' = unsubbed \cup {<<type, handler>>}
    /\ UNCHANGED unsubBefore

----------------------------------------------------------------------------
(* PublishSubscribeService.publish and its drain loop *)

\* a publish that never takes the early return
ReentrantNever == FALSE

\* if (this.processing) return;
Reentrant == processing

\* a loop that stops one event early
LoopCondOffByOne == Len(queue) > 1

\* while (this.queue.length > 0)
LoopCond == Len(queue) > 0

\* this.queue.pop() in the place of shift()
ShiftLast(q) == [event |-> q[Len(q)], rest |-> SubSeq(q, 1, Len(q) - 1)]

\* this.queue[0] in the place of shift(): the event stays in the queue
ShiftPeek(q) == [event |-> Head(q), rest |-> q]

\* this.queue.shift()
Shift(q) == [event |-> Head(q), rest |-> Tail(q)]

\* a for loop over the table's list as it is now, not over a copy
IterationListLive == ListOf(next.type)

\* the list the for loop iterates over: the copy [...list]
IterationList == snap

\* the handler the for loop is at
Current ==
    IF idx \in 1..Len(IterationList) THEN IterationList[idx] ELSE "none"

\* where the for loop goes once position i - 1 is done
AfterPc(i) == IF i <= Len(IterationList) THEN "for" ELSE "loop"

\* sub.handle(next) called with no try around it
CaughtNever == FALSE

\* try { sub.handle(next) } catch {}: whatever the handler throws is caught
Caught == TRUE

\* a try/catch around the for loop: a throw ends the loop
CatchAbortLoop == Len(IterationList) + 1

\* catch {}: the for loop goes on with the next subscriber
CatchResume == idx + 1

Frame(retPc, retIdx, retCalls) ==
    [pc |-> retPc, idx |-> retIdx, calls |-> retCalls, next |-> next,
     snap |-> snap, invoked |-> invoked, listAtPop |-> listAtPop,
     threwAt |-> threwAt]

\* publish(event), called from a place that goes on at (retPc, retIdx, retCalls)
publish(event, retPc, retIdx, retCalls) ==
    /\ queue' = Append(queue, event)
    /\ enqCount' = enqCount + 1
    /\ IF Reentrant
       THEN /\ pc' = retPc
            /\ idx' = retIdx
            /\ calls' = retCalls
            /\ UNCHANGED <<processing, stack, next, snap, invoked, listAtPop,
                           threwAt>>
       ELSE /\ processing' = TRUE
            /\ stack' = Append(stack, Frame(retPc, retIdx, retCalls))
            /\ pc' = "loop"
            /\ next' = NoEvent
            /\ snap' = <<>>
            /\ idx' = 0
            /\ calls' = 0
            /\ invoked' = <<>>
            /\ listAtPop' = <<>>
            /\ threwAt' = {}

\* next.type() throws
TypeThrows(ev) == ev.type = "throws"

\* one iteration of the while loop up to the for loop: shift, look up, copy
DrainPop ==
    /\ pc = "loop"
    /\ LoopCond
    /\ ~TypeThrows(Shift(queue).event)
    /\ LET ev == Shift(queue).event
           list == ListOf(ev.type)
       IN /\ queue' = Shift(queue).rest
          /\ next' = ev
          /\ popCount' = popCount + 1
          /\ unsubBefore' = unsubbed
          /\ listAtPop' = list
          /\ invoked' = <<>>
          /\ threwAt' = {}
          /\ calls' = 0
          /\ IF ev.type \notin DOMAIN subscribers \/ Len(list) = 0
             THEN /\ pc' = "loop"
                  /\ snap' = <<>>
                  /\ idx' = 0
             ELSE /\ pc' = "for"
                  /\ snap' = list
                  /\ idx' = 1
    /\ UNCHANGED <<subscribers, processing, stack, enqCount, nPublished,
                   unsubbed, testMode, callVars, machineVars>>

\* the while loop ends: finally { this.processing = false }, publish returns
DrainExit ==
    /\ pc = "loop"
    /\ ~LoopCond
    /\ processing' = FALSE
    /\ LET f == stack[Len(stack)]
       IN /\ pc' = f.pc
          /\ idx' = f.idx
          /\ calls' = f.calls
          /\ next' = f.next
          /\ snap' = f.snap
          /\ invoked' = f.invoked
          /\ listAtPop' = f.listAtPop
          /\ threwAt' = f.threwAt
    /\ stack' = SubSeq(stack, 1, Len(stack) - 1)
    /\ UNCHANGED <<subscribers, queue, enqCount, popCount, nPublished,
                   unsubbed, unsubBefore, testMode, callVars, machineVars>>

\* a publish that resets the flag after the loop, with no finally
FlagAfterEscapeNoFinally == processing

\* finally { this.processing = false } when an exception leaves the try block
FlagAfterEscape == FALSE

\* a finally block that also empties the queue
DrainEscapeClears ==
    /\ pc = "loop"
    /\ LoopCond
    /\ TypeThrows(Shift(queue).event)
    /\ queue' = <<>>
    /\ popCount' = popCount + 1
    /\ processing' = FALSE
    /\ LET f == stack[Len(stack)]
       IN /\ pc' = f.pc
          /\ idx' = f.idx
          /\ calls' = f.calls
          /\ next' = f.next
          /\ snap' = f.snap
          /\ invoked' = f.invoked
          /\ listAtPop' = f.listAtPop
          /\ threwAt' = f.threwAt
          /\ escaped' = (escaped \/ f.pc = "idle")
    /\ stack' = SubSeq(stack, 1, Len(stack) - 1)
    /\ UNCHANGED <<subscribers, enqCount, nPublished, unsubbed, unsubBefore,
                   testMode, net, resid, lastCall, machineVars>>

\* next.type() throws outside the per-handler try: the popped event is gone,
\* the finally block runs, and the exception leaves publish towards its caller
DrainEscape ==
    /\ pc = "loop"
    /\ LoopCond
    /\ TypeThrows(Shift(queue).event)
    /\ queue' = Shift(queue).rest
    /\ popCount' = popCount + 1
    /\ processing' = FlagAfterEscape
    /\ LET f == stack[Len(stack)]
       IN /\ pc' = f.pc
          /\ idx' = f.idx
          /\ calls' = f.calls
          /\ next' = f.next
          /\ snap' = f.snap
          /\ invoked' = f.invoked
          /\ listAtPop' = f.listAtPop
          /\ threwAt' = f.threwAt
          /\ escaped' = (escaped \/ f.pc = "idle")
    /\ stack' = SubSeq(stack, 1, Len(stack) - 1)
    /\ UNCHANGED <<subscribers, enqCount, nPublished, unsubbed, unsubBefore,
                   testMode, net, resid, lastCall, machineVars>>

\* sub.handle(next) is entered
Invoke ==
    /\ pc = "for"
    /\ invoked' = Append(invoked, Current)
    /\ pc' = "handler"
    /\ calls' = 0
    /\ UNCHANGED <<subscribers, queue, processing, stack, next, snap, idx,
                   listAtPop, threwAt, enqCount, popCount, nPublished,
                   unsubbed, unsubBefore, testMode, callVars, machineVars>>

----------------------------------------------------------------------------
(* Arbitrary subscribers: implementations of ISubscriber whose handle makes *)
(* up to MaxCalls calls of the service and then returns or throws.          *)

Subs == {"s1", "s2"}
CoreTypes == {"sale", "low-stock"}
TopTypes == {"sale"}          \* types of the events published outside handlers
CascadeTypes == {"low-stock"}  \* types of the events published by handlers

\* an event of the given type, as a caller of publish constructs it
CoreEvent(type, uid) ==
    IF type = "sale" THEN MachineSaleEvent(1, "001", uid)
    ELSE LowStockWarningEvent("001", uid)

\* a caller outside any handler calls subscribe
TopSubscribe(type, handler) ==
    /\ pc = "idle"
    /\ TotalSubscriptions < MaxSubscriptions
    /\ subscribe(type, handler)
    /\ UNCHANGED <<queue, processing, pc, calls, stack, enqCount, popCount,
                   nPublished, testMode, callVars, frameVars, machineVars>>

\* a caller outside any handler calls unsubscribe
TopUnsubscribe(type, handler) ==
    /\ pc = "idle"
    /\ unsubscribe(type, handler)
    /\ UNCHANGED <<queue, processing, pc, calls, stack, enqCount, popCount,
                   nPublished, testMode, callVars, frameVars, machineVars>>

\* a caller outside any handler calls publish
TopPublish(type) ==
    /\ pc = "idle"
    /\ enqCount < MaxEvents
    /\ publish(CoreEvent(type, enqCount + 1), "idle", idx, calls)
    /\ nPublished' = nPublished + 1
    /\ UNCHANGED <<subscribers, popCount, unsubbed, unsubBefore, testMode, callVars,
                   machineVars>>

\* the running handler calls publish
HandlerPublish(type) ==
    /\ pc = "handler"
    /\ Current \in Subs
    /\ calls < MaxCalls
    /\ enqCount < MaxEvents
    /\ publish(CoreEvent(type, enqCount + 1), "handler", idx, calls + 1)
    /\ UNCHANGED <<subscribers, popCount, nPublished, unsubbed, unsubBefore,
                   testMode, callVars, machineVars>>

\* the running handler calls subscribe
HandlerSubscribe(type, handler) ==
    /\ pc = "handler"
    /\ Current \in Subs
    /\ calls < MaxCalls
    /\ TotalSubscriptions < MaxSubscriptions
    /\ subscribe(type, handler)
    /\ calls' = calls + 1
    /\ UNCHANGED <<queue, processing, pc, stack, enqCount, popCount,
                   nPublished, testMode, callVars, frameVars, machineVars>>

\* the running handler calls unsubscribe
HandlerUnsubscribe(type, handler) ==
    /\ pc = "handler"
    /\ Current \in Subs
    /\ calls < MaxCalls
    /\ unsubscribe(type, handler)
    /\ calls' = calls + 1
    /\ UNCHANGED <<queue, processing, pc, stack, enqCount, popCount,
                   nPublished, testMode, callVars, frameVars, machineVars>>

\* the running handler returns
HandlerReturn ==
    /\ pc = "handler"
    /\ Current \in Subs
    /\ idx' = idx + 1
    /\ pc' = AfterPc(idx + 1)
    /\ calls' = 0
    /\ UNCHANGED <<subscribers, queue, processing, stack, next, snap,
                   invoked, listAtPop, threwAt, enqCount, popCount,
                   nPublished, unsubbed, unsubBefore, testMode, callVars, machineVars>>

\* the running handler throws: try { sub.handle(next) } catch {}
HandlerThrow ==
    /\ pc = "handler"
    /\ Current \in Subs
    /\ IF Caught
       THEN /\ threwAt' = threwAt \cup {idx}
            /\ idx' = CatchResume
            /\ pc' = AfterPc(CatchResume)
            /\ calls' = 0
            /\ UNCHANGED <<processing, stack, next, snap, invoked, listAtPop,
                           escaped>>
       ELSE /\ processing' = FALSE
            /\ LET f == stack[Len(stack)]
               IN /\ pc' = f.pc
                  /\ idx' = f.idx
                  /\ calls' = f.calls
                  /\ next' = f.next
                  /\ snap' = f.snap
                  /\ invoked' = f.invoked
                  /\ listAtPop' = f.listAtPop
                  /\ threwAt' = f.threwAt
                  /\ escaped' = (escaped \/ f.pc = "idle")
            /\ stack' = SubSeq(stack, 1, Len(stack) - 1)
    /\ UNCHANGED <<subscribers, queue, enqCount, popCount, nPublished,
                   unsubbed, unsubBefore, testMode, net, resid, lastCall,
                   machineVars>>

\* new PublishSubscribeService(), and the machines as the program makes them
Init ==
    /\ subscribers = <<>>
    /\ queue = <<>>
    /\ processing = FALSE
    /\ stockLevel = [m \in MachineIds |-> InitialStock]
    /\ below = {}
    /\ out = <<>>
    /\ testMode = FALSE
    /\ pc = "idle"
    /\ next = NoEvent
    /\ snap = <<>>
    /\ idx = 0
    /\ calls = 0
    /\ stack = <<>>
    /\ enqCount = 0
    /\ popCount = 0
    /\ nPublished = 0
    /\ invoked = <<>>
    /\ listAtPop = <<>>
    /\ threwAt = {}
    /\ unsubbed = {}
    /\ unsubBefore = {}
    /\ alerts = <<>>
    /\ net = [m \in MachineIds |-> 0]
    /\ escaped = FALSE
    /\ resid = 0
    /\ lastCall = NoCall

Next ==
    \/ \E t \in CoreTypes, h \in Subs : TopSubscribe(t, h)
    \/ \E t \in CoreTypes, h \in Subs : TopUnsubscribe(t, h)
    \/ \E t \in TopTypes : TopPublish(t)
    \/ DrainPop
    \/ Invoke
    \/ \E t \in CascadeTypes : HandlerPublish(t)
    \/ \E t \in CoreTypes, h \in Subs : HandlerSubscribe(t, h)
    \/ \E t \in CoreTypes, h \in Subs : HandlerUnsubscribe(t, h)
    \/ HandlerReturn
    \/ HandlerThrow
    \/ DrainExit

Spec == Init /\ [][Next]_vars

----------------------------------------------------------------------------
(* The subscription table alone: callers outside handlers subscribe,       *)
(* unsubscribe and publish; the handlers only return. Every call of        *)
(* subscribe/unsubscribe is recorded in lastCall.                          *)

MaxTableEntries == 3   \* entries of the subscription table in TableSpec
MaxTableEvents == 1    \* events published in a run of TableSpec

TableSubs == Subs \cup {"s3"}

Called(op, type, handler) ==
    [op |-> op, type |-> type, handler |-> handler, flip |-> ~lastCall.flip]

\* a caller outside any handler calls subscribe
TableSubscribe(type, handler) ==
    /\ pc = "idle"
    /\ TotalSubscriptions < MaxTableEntries
    /\ subscribe(type, handler)
    /\ lastCall' = Called("subscribe", type, handler)
    /\ UNCHANGED <<queue, processing, pc, calls, stack, enqCount, popCount,
                   nPublished, testMode, net, escaped, resid, frameVars,
                   machineVars>>

\* a caller outside any handler calls unsubscribe
TableUnsubscribe(type, handler) ==
    /\ pc = "idle"
    /\ unsubscribe(type, handler)
    /\ lastCall' = Called("unsubscribe", type, handler)
    /\ UNCHANGED <<queue, processing, pc, calls, stack, enqCount, popCount,
                   nPublished, testMode, net, escaped, resid, frameVars,
                   machineVars>>

\* the running handler returns
TableReturn ==
    /\ pc = "handler"
    /\ Current \in TableSubs
    /\ idx' = idx + 1
    /\ pc' = AfterPc(idx + 1)
    /\ calls' = 0
    /\ UNCHANGED <<subscribers, queue, processing, stack, next, snap,
                   invoked, listAtPop, threwAt, enqCount, popCount,
                   nPublished, unsubbed, unsubBefore, testMode, callVars,
                   machineVars>>

\* a caller outside any handler calls publish
TablePublish(type) ==
    /\ enqCount < MaxTableEvents
    /\ TopPublish(type)

TableNext ==
    \/ \E t \in CoreTypes, h \in TableSubs : TableSubscribe(t, h)
    \/ \E t \in CoreTypes, h \in TableSubs : TableUnsubscribe(t, h)
    \/ \E t \in CoreTypes : TablePublish(t)
    \/ DrainPop
    \/ Invoke
    \/ TableReturn
    \/ DrainExit

TableSpec == Init /\ [][TableNext]_vars

----------------------------------------------------------------------------
(* The service with events whose type() may throw: callers subscribe and   *)
(* publish, handlers publish, return or throw.                             *)

MaxFaultEvents == 4   \* events pushed in a run of FaultSpec

FaultTopTypes == {"sale", "throws"}
FaultCascadeTypes == {"low-stock", "throws"}

\* an event of the given type, as a caller of publish constructs it
FaultEvent(type, uid) ==
    IF type = "throws" THEN ThrowingEvent(uid) ELSE CoreEvent(type, uid)

\* a caller outside any handler calls publish
FaultPublish(type) ==
    /\ pc = "idle"
    /\ enqCount < MaxFaultEvents
    /\ publish(FaultEvent(type, enqCount + 1), "idle", idx, calls)
    /\ nPublished' = nPublished + 1
    /\ escaped' = FALSE
    /\ resid' = enqCount
    /\ UNCHANGED <<subscribers, popCount, unsubbed, unsubBefore, testMode,
                   net, lastCall, machineVars>>

\* the running handler calls publish
FaultHandlerPublish(type) ==
    /\ pc = "handler"
    /\ Current \in Subs
    /\ calls < MaxCalls
    /\ enqCount < MaxFaultEvents
    /\ publish(FaultEvent(type, enqCount + 1), "handler", idx, calls + 1)
    /\ UNCHANGED <<subscribers, popCount, nPublished, unsubbed, unsubBefore,
                   testMode, callVars, machineVars>>

FaultNext ==
    \/ \E t \in CoreTypes, h \in Subs : TopSubscribe(t, h)
    \/ \E t \in FaultTopTypes : FaultPublish(t)
    \/ DrainPop
    \/ DrainEscape
    \/ Invoke
    \/ \E t \in FaultCascadeTypes : FaultHandlerPublish(t)
    \/ HandlerReturn
    \/ HandlerThrow
    \/ DrainExit

FaultSpec == Init /\ [][FaultNext]_vars

----------------------------------------------------------------------------
(* The program's subscribers *)

\* a lookup that falls back to the first machine
FindMachineFirst(id) == IF id \in MachineIds THEN id ELSE "001"

\* this.machines.find((m) => m.id === id): the machine, or "none" (undefined)
FindMachine(id) == IF id \in MachineIds THEN id ELSE "none"

\* += in the place of -=
SaleStockAdd(level, sold) == level + sold

\* targetMachine.stockLevel -= saleEvent.getSoldQuantity()
SaleStock(level, sold) == level - sold

\* = in the place of +=
RefillStockSet(level, refill) == refill

\* targetMachine.stockLevel += refillEvent.getRefillQuantity()
RefillStock(level, refill) == level + refill

\* <= in the place of <
IsBelowOrAt(m) == stockLevel[m] <= Threshold

\* machine.stockLevel < this.threshold
IsBelow(m) == stockLevel[m] < Threshold

\* a subscriber that does not look at its set: level-triggered
WasBelowNever(m) == FALSE

\* this.below.has(machine.id)
WasBelow(m) == m \in below

\* a warning for every event that finds the machine below the threshold
WarnCondLevel(isBelow, wasBelow) == isBelow

\* the branch that publishes LowStockWarningEvent
WarnCond(isBelow, wasBelow) == isBelow /\ ~wasBelow

\* a branch taken whenever the machine was below
RecoverCondLoose(isBelow, wasBelow) == wasBelow

\* the branch that publishes StockLevelOkEvent
RecoverCond(isBelow, wasBelow) == ~isBelow /\ wasBelow

\* the handler returns to the for loop
Return ==
    /\ idx' = idx + 1
    /\ pc' = AfterPc(idx + 1)
    /\ calls' = 0
    /\ UNCHANGED <<processing, stack, next, snap, invoked, listAtPop,
                   threwAt>>

\* MachineSaleSubscriber.handle
SaleHandle ==
    /\ pc = "handler"
    /\ Current = "saleSubscriber"
    /\ stockLevel' =
           IF next.type = "sale" /\ FindMachine(next.machineId) # "none"
           THEN [stockLevel EXCEPT ![FindMachine(next.machineId)] =
                    SaleStock(@, next.qty)]
           ELSE stockLevel
    /\ Return
    /\ UNCHANGED <<subscribers, queue, below, out, alerts, enqCount, popCount,
                   nPublished, unsubbed, unsubBefore, testMode, callVars>>

\* MachineRefillSubscriber.handle
RefillHandle ==
    /\ pc = "handler"
    /\ Current = "refillSubscriber"
    /\ stockLevel' =
           IF next.type = "refill" /\ FindMachine(next.machineId) # "none"
           THEN [stockLevel EXCEPT ![FindMachine(next.machineId)] =
                    RefillStock(@, next.qty)]
           ELSE stockLevel
    /\ Return
    /\ UNCHANGED <<subscribers, queue, below, out, alerts, enqCount, popCount,
                   nPublished, unsubbed, unsubBefore, testMode, callVars>>

\* StockWarningSubscriber.handle
StockWarningHandle ==
    /\ pc = "handler"
    /\ Current = "stockWarning"
    /\ LET m == FindMachine(next.machineId)
       IN IF next.type \notin {"sale", "refill"} \/ m = "none"
          THEN /\ Return
               /\ UNCHANGED <<queue, enqCount, below, alerts>>
          ELSE IF WarnCond(IsBelow(m), WasBelow(m))
          THEN /\ below' = below \cup {m}
               /\ publish(LowStockWarningEvent(m, enqCount + 1),
                          AfterPc(idx + 1), idx + 1, 0)
               /\ alerts' = Append(alerts, [type |-> "low-stock",
                                 machineId |-> m, during |-> nPublished])
          ELSE IF RecoverCond(IsBelow(m), WasBelow(m))
          THEN /\ below' = below \ {m}
               /\ publish(StockLevelOkEvent(m, enqCount + 1),
                          AfterPc(idx + 1), idx + 1, 0)
               /\ alerts' = Append(alerts, [type |-> "stock-ok",
                                 machineId |-> m, during |-> nPublished])
          ELSE /\ Return
               /\ UNCHANGED <<queue, enqCount, below, alerts>>
    /\ UNCHANGED <<subscribers, stockLevel, out, popCount, nPublished,
                   unsubbed, unsubBefore, testMode, callVars>>

\* StockAlertLogger.handle
AlertLoggerHandle ==
    /\ pc = "handler"
    /\ Current = "alertLogger"
    /\ out' =
           IF next.type = "low-stock"
           THEN Append(out, [line |-> "LOW STOCK WARNING",
                             machineId |-> next.machineId,
                             during |-> nPublished])
           ELSE IF next.type = "stock-ok"
           THEN Append(out, [line |-> "STOCK LEVEL OK",
                             machineId |-> next.machineId,
                             during |-> nPublished])
           ELSE out
    /\ Return
    /\ UNCHANGED <<subscribers, queue, stockLevel, below, alerts, enqCount,
                   popCount, nPublished, unsubbed, unsubBefore, testMode, callVars>>

----------------------------------------------------------------------------
(* The program *)

\* the predefined sequence of --test
TestSequence ==
    << MachineSaleEvent(2, "001", 0), MachineSaleEvent(2, "001", 0),
       MachineSaleEvent(2, "001", 0), MachineSaleEvent(2, "001", 0),
       MachineRefillEvent(3, "001", 0) >>

\* randomMachine(), and the ids of no machine a caller of publish may give
EventMachineIds == MachineIds \cup UnknownIds

\* eventGenerator(): a sale of 1 or 2, or a refill of 3 or 5
GeneratedEvents ==
    {MachineSaleEvent(q, m, 0) : q \in {1, 2}, m \in EventMachineIds}
        \cup {MachineRefillEvent(q, m, 0) : q \in {3, 5}, m \in EventMachineIds}

\* the watcher subscribed before the two subscribers that change the stock
WiringWatchFirst ==
    [t \in Types |->
        CASE t = "sale" -> <<"stockWarning", "saleSubscriber">>
          [] t = "refill" -> <<"stockWarning", "refillSubscriber">>
          [] t = "low-stock" -> <<"alertLogger">>
          [] t = "stock-ok" -> <<"alertLogger">>]

\* the subscriptions the program makes, in its order
Wiring ==
    [t \in Types |->
        CASE t = "sale" -> <<"saleSubscriber", "stockWarning">>
          [] t = "refill" -> <<"refillSubscriber", "stockWarning">>
          [] t = "low-stock" -> <<"alertLogger">>
          [] t = "stock-ok" -> <<"alertLogger">>]

\* history: the published quantities of a known machine, refills minus sales
NetAfter(e) ==
    IF e.machineId \in MachineIds /\ e.type \in {"sale", "refill"}
    THEN [net EXCEPT ![e.machineId] =
              IF e.type = "sale" THEN @ - e.qty ELSE @ + e.qty]
    ELSE net

\* sequence.forEach(e => publish(e)) / events.forEach((e) => publish(e))
ProgramPublish(e) ==
    /\ pc = "idle"
    /\ IF testMode
       THEN nPublished < Len(TestSequence) /\ e = TestSequence[nPublished + 1]
       ELSE nPublished < MaxPublishes
    /\ publish([e EXCEPT !.uid = enqCount + 1], "idle", idx, calls)
    /\ nPublished' = nPublished + 1
    /\ net' = NetAfter(e)
    /\ UNCHANGED <<subscribers, popCount, unsubbed, unsubBefore, testMode,
                   escaped, resid, lastCall, machineVars>>

\* the program's state when it starts publishing
ProgramInit ==
    /\ subscribers = Wiring
    /\ queue = <<>>
    /\ processing = FALSE
    /\ stockLevel = [m \in MachineIds |-> InitialStock]
    /\ below = {m \in MachineIds : InitialStock < Threshold}
    /\ out = <<>>
    /\ testMode \in BOOLEAN
    /\ pc = "idle"
    /\ next = NoEvent
    /\ snap = <<>>
    /\ idx = 0
    /\ calls = 0
    /\ stack = <<>>
    /\ enqCount = 0
    /\ popCount = 0
    /\ nPublished = 0
    /\ invoked = <<>>
    /\ listAtPop = <<>>
    /\ threwAt = {}
    /\ unsubbed = {}
    /\ unsubBefore = {}
    /\ alerts = <<>>
    /\ net = [m \in MachineIds |-> 0]
    /\ escaped = FALSE
    /\ resid = 0
    /\ lastCall = NoCall

ProgramNext ==
    \/ \E e \in GeneratedEvents : ProgramPublish(e)
    \/ DrainPop
    \/ Invoke
    \/ SaleHandle
    \/ RefillHandle
    \/ StockWarningHandle
    \/ AlertLoggerHandle
    \/ DrainExit

ProgramSpec == ProgramInit /\ [][ProgramNext]_vars

\* the steps of a running publish: synchronous code, it runs on once called
ProgramDrain ==
    \/ DrainPop
    \/ Invoke
    \/ SaleHandle
    \/ RefillHandle
    \/ StockWarningHandle
    \/ AlertLoggerHandle
    \/ DrainExit

----------------------------------------------------------------------------
(* The program's subscribers under the program's wiring or under one that  *)
(* also hands every subscriber the events of the kinds it ignores.         *)

\* subscriptions in which each subscriber also gets kinds it does not handle
CrossWiring ==
    [t \in Types |->
        CASE t = "sale" ->
                 <<"saleSubscriber", "refillSubscriber", "stockWarning">>
          [] t = "refill" ->
                 <<"saleSubscriber", "refillSubscriber", "stockWarning">>
          [] t = "low-stock" -> <<"alertLogger", "saleSubscriber">>
          [] t = "stock-ok" -> <<"alertLogger", "refillSubscriber">>]

CrossInit ==
    /\ subscribers \in {Wiring, CrossWiring}
    /\ queue = <<>>
    /\ processing = FALSE
    /\ stockLevel = [m \in MachineIds |-> InitialStock]
    /\ below = {m \in MachineIds : InitialStock < Threshold}
    /\ out = <<>>
    /\ testMode = FALSE
    /\ pc = "idle"
    /\ next = NoEvent
    /\ snap = <<>>
    /\ idx = 0
    /\ calls = 0
    /\ stack = <<>>
    /\ enqCount = 0
    /\ popCount = 0
    /\ nPublished = 0
    /\ invoked = <<>>
    /\ listAtPop = <<>>
    /\ threwAt = {}
    /\ unsubbed = {}
    /\ unsubBefore = {}
    /\ alerts = <<>>
    /\ net = [m \in MachineIds |-> 0]
    /\ escaped = FALSE
    /\ resid = 0
    /\ lastCall = NoCall

CrossSpec == CrossInit /\ [][ProgramNext]_vars

----------------------------------------------------------------------------
(* Properties of the service, under Spec *)

\* the step that enters a handler
InvokeStep == pc = "for" /\ pc' = "handler"

\* C1 - FIFO cascade ordering: events are popped in the order in which they
\* were pushed (the n-th pop yields the n-th event pushed, and the queue
\* holds the events pushed and not yet popped, in push order), and an event
\* is popped only once every subscriber of the previous event's snapshot has
\* been invoked and no caller is suspended inside a handler (breadth-first).
C1_QueueInOrder ==
    /\ next # NoEvent => next.uid = popCount
    /\ Len(queue) = enqCount - popCount
    /\ \A i \in 1..Len(queue) : queue[i].uid = popCount + i

C1_FifoCascadeOrder ==
    /\ []C1_QueueInOrder
    /\ [][popCount' # popCount =>
            /\ invoked = listAtPop
            /\ \A i \in 1..Len(stack) : stack[i].pc = "idle"]_vars

\* the for loop of the published event is over and the two events that its
\* handlers published wait in the queue, in the order of their publication
C1_Witness ==
    /\ pc = "loop"
    /\ nPublished = 1
    /\ popCount = 1
    /\ Len(invoked) = 2
    /\ Len(queue) = 2
    /\ queue[1].type \in CascadeTypes

\* C2 - Re-entrancy safety: a publish made by a handler only appends the
\* event and returns into the handler; at most one drain loop is ever
\* active; the event is popped exactly once, at its turn, before the outer
\* publish returns.
C2_ReentrantPublishStep ==
    (pc = "handler" /\ enqCount' # enqCount) =>
        /\ enqCount' = enqCount + 1
        /\ Len(queue') = Len(queue) + 1
        /\ SubSeq(queue', 1, Len(queue)) = queue
        /\ queue'[Len(queue')].uid = enqCount'
        /\ pc' = "handler"
        /\ UNCHANGED <<processing, stack, popCount, next, snap, idx, invoked,
                       subscribers>>

C2_ReentrancySafety ==
    /\ [](Len(stack) <= 1)
    /\ [](pc # "idle" => processing /\ Len(stack) = 1)
    /\ [](next # NoEvent => next.uid = popCount)
    /\ [](pc = "idle" => popCount = enqCount)
    /\ [][C2_ReentrantPublishStep]_vars

\* an event published by a handler is being dispatched by the outer drain
C2_Witness ==
    /\ pc = "handler"
    /\ next.type \in CascadeTypes
    /\ next.uid = 2
    /\ Len(stack) = 1
    /\ processing

\* C3 - Drain to exhaustion: when a publish made outside any handler has
\* returned, the queue is empty, processing is false and every event pushed
\* has been popped.
C3_DrainToExhaustion ==
    pc = "idle" => queue = <<>> /\ ~processing /\ popCount = enqCount

\* one publish has returned after its cascade of two events was dispatched
C3_Witness ==
    /\ pc = "idle"
    /\ nPublished = 1
    /\ enqCount = 3
    /\ popCount = 3

\* C4 - Fault isolation: a throw of a handler moves the for loop to the next
\* subscriber and leaves the queue and the drain as they are; when the for
\* loop of an event ends, every subscriber of its list has been invoked,
\* also when some of them threw; the drain ends with the queue empty.
C4_ThrowStep ==
    threwAt' # threwAt /\ threwAt' # {} =>
        /\ idx' = idx + 1
        /\ pc' = (IF idx < Len(listAtPop) THEN "for" ELSE "loop")
        /\ UNCHANGED <<queue, processing, stack, popCount, enqCount, invoked,
                       listAtPop, next>>

C4_FaultIsolation ==
    /\ [](threwAt # {} /\ pc = "loop" => invoked = listAtPop)
    /\ [](threwAt # {} => processing /\ Len(stack) = 1)
    /\ [](pc = "idle" => queue = <<>> /\ popCount = enqCount)
    /\ [][C4_ThrowStep]_vars

\* the first subscriber threw, the second one is running, an event waits
C4_Witness ==
    /\ pc = "handler"
    /\ threwAt = {1}
    /\ idx = 2
    /\ invoked = listAtPop
    /\ Len(queue) > 0

\* what unsubscribe(t, h) leaves of each list
C5_OthersKept ==
    \A t \in Types, h \in Subs :
        (<<t, h>> \in unsubbed' /\ <<t, h>> \notin unsubbed) =>
            /\ ListOf(t)' = SelectSeq(ListOf(t), LAMBDA g : g # h)
            /\ \A u \in Types \ {t} : ListOf(u)' = ListOf(u)

C6_SnapshotDispatch ==
    /\ Len(invoked) <= Len(listAtPop)
    /\ \A i \in 1..Len(invoked) : invoked[i] = listAtPop[i]
    /\ pc = "for" => Len(invoked) = idx - 1
    /\ pc = "handler" => Len(invoked) = idx
    /\ pc = "loop" => invoked = listAtPop

\* both subscribers of the snapshot were invoked although the first one
\* changed the table's list
C6_Witness ==
    /\ pc = "loop"
    /\ Len(invoked) = 2
    /\ invoked = listAtPop
    /\ ListOf(next.type) # listAtPop

----------------------------------------------------------------------------
(* Properties of the program, under ProgramSpec *)

\* the step pushes an event of the given type
Published(type) ==
    /\ enqCount' # enqCount
    /\ Len(queue') > 0
    /\ queue'[Len(queue')].type = type

\* StockWarningSubscriber.handle is about to run for a Sale/Refill event of
\* a machine of the collection
WatchStep ==
    /\ pc = "handler"
    /\ Current = "stockWarning"
    /\ next.type \in {"sale", "refill"}
    /\ next.machineId \in MachineIds

\* C7 - Edge-triggered low-stock warning: a LowStockWarning is pushed only
\* by StockWarningSubscriber handling a Sale/Refill event of a machine whose
\* stock is below the threshold and which is not in the below set, and the
\* machine then joins the set; no warning is pushed for a machine that is in
\* the set. No alert is published during the first three publishes, and
\* after four sales of 2 of a machine (stock 10 - 8) the one alert published
\* is its LowStockWarning, during the fourth publish.
C7_WarningStep ==
    /\ Published("low-stock") =>
          /\ WatchStep
          /\ queue' = Append(queue,
                             LowStockWarningEvent(next.machineId, enqCount + 1))
          /\ stockLevel[next.machineId] < Threshold
          /\ next.machineId \notin below
          /\ below' = below \cup {next.machineId}
    /\ (WatchStep /\ next.machineId \in below) => ~Published("low-stock")

C7_FourSales ==
    /\ nPublished <= 3 => alerts = <<>>
    /\ \A m \in MachineIds :
          (pc = "idle" /\ nPublished = 4 /\ stockLevel[m] = InitialStock - 8)
              => alerts = <<[type |-> "low-stock", machineId |-> m,
                             during |-> 4]>>

C7_EdgeTriggeredWarning == [][C7_WarningStep]_vars /\ []C7_FourSales

\* a fifth sale of a machine that four sales of 2 brought below the
\* threshold has been handled, and the one alert is that of the fourth sale
C7_Witness ==
    /\ pc = "idle"
    /\ nPublished = 5
    /\ \E m \in MachineIds :
          /\ stockLevel[m] \in {0, 1}
          /\ m \in below
          /\ alerts = <<[type |-> "low-stock", machineId |-> m, during |-> 4]>>

\* C8 - Recovery transition: when StockWarningSubscriber handles a
\* Sale/Refill event of a machine that is in the below set and whose stock is
\* at or above the threshold, exactly one StockLevelOk is pushed and the
\* machine leaves the set; a StockLevelOk is pushed in no other case; a
\* LowStockWarning is pushed for a machine only when its stock is below the
\* threshold.
C8_RecoveryStep ==
    /\ (WatchStep /\ next.machineId \in below
            /\ stockLevel[next.machineId] >= Threshold) =>
          /\ enqCount' = enqCount + 1
          /\ queue' = Append(queue,
                             StockLevelOkEvent(next.machineId, enqCount + 1))
          /\ below' = below \ {next.machineId}
    /\ Published("stock-ok") =>
          /\ WatchStep
          /\ next.machineId \in below
          /\ stockLevel[next.machineId] >= Threshold
    /\ Published("low-stock") =>
          /\ next.machineId \in MachineIds
          /\ stockLevel[next.machineId] < Threshold
    /\ (WatchStep /\ next.machineId \notin below
            /\ stockLevel[next.machineId] >= Threshold) =>
          (enqCount' = enqCount /\ below' = below)

C8_RecoveryTransition == [][C8_RecoveryStep]_vars

\* a machine went below (4th publish), recovered by a refill of 3 (5th), and
\* a sale that leaves it at or above the threshold (6th) published nothing
C8_Witness ==
    /\ pc = "idle"
    /\ nPublished = 6
    /\ \E m \in MachineIds :
          /\ stockLevel[m] \in {3, 4}
          /\ m \notin below
          /\ alerts = <<[type |-> "low-stock", machineId |-> m, during |-> 4],
                        [type |-> "stock-ok", machineId |-> m, during |-> 5]>>

\* C9 - End-to-end scenario: under --test the logger receives only the
\* low-stock event of machine 001 (the 5th event pushed) and its stock-ok
\* event (the 7th); it writes nothing during the first three publishes, the
\* low-stock line during the fourth and the stock-ok line during the fifth,
\* nothing else, and machine 001 ends at stock 5, the other machines at 10.
C9_Low == [line |-> "LOW STOCK WARNING", machineId |-> "001", during |-> 4]

C9_Ok == [line |-> "STOCK LEVEL OK", machineId |-> "001", during |-> 5]

C9_EndToEnd ==
    testMode =>
        /\ (pc = "handler" /\ Current = "alertLogger") =>
              next \in {LowStockWarningEvent("001", 5),
                        StockLevelOkEvent("001", 7)}
        /\ nPublished <= 3 => out = <<>>
        /\ (nPublished = 4 /\ pc = "idle") => out = <<C9_Low>>
        /\ nPublished = 5 => out \in {<<C9_Low>>, <<C9_Low, C9_Ok>>}
        /\ (nPublished = 5 /\ pc = "idle") =>
              /\ out = <<C9_Low, C9_Ok>>
              /\ stockLevel = [m \in MachineIds |->
                                  IF m = "001" THEN 5 ELSE InitialStock]

\* the five publishes of --test have returned
C9_Witness ==
    /\ testMode
    /\ pc = "idle"
    /\ nPublished = Len(TestSequence)
    /\ Len(out) = 2

\* an event of no machine of the collection is queued or being dispatched
UnknownInFlight ==
    \/ next # NoEvent /\ next.machineId \notin MachineIds
    \/ \E i \in 1..Len(queue) : queue[i].machineId \notin MachineIds

\* C10 - Unknown machine: from the publish of a Sale/Refill event of a
\* machine id that is not in the collection to the return of that publish,
\* no stockLevel changes, the below set does not change, and no
\* LowStockWarning or StockLevelOk is pushed or logged.
C10_UnknownStep ==
    (UnknownInFlight \/ UnknownInFlight') =>
        /\ stockLevel' = stockLevel
        /\ below' = below
        /\ alerts' = alerts
        /\ out' = out
        /\ \A i \in 1..Len(queue') : queue'[i].type \in {"sale", "refill"}
        /\ enqCount' # enqCount => pc = "idle"

C10_UnknownMachine == [][C10_UnknownStep]_vars

\* Sale(1, "999") has been handled by both subscribers of sale events
C10_Witness ==
    /\ pc = "loop"
    /\ next = MachineSaleEvent(1, "999", next.uid)
    /\ invoked = <<"saleSubscriber", "stockWarning">>
    /\ queue = <<>>

----------------------------------------------------------------------------
(* C11 Subscribe appends *)

\* a step that is a call subscribe(type, handler), recorded in lastCall
SubscribeStep == lastCall' # lastCall /\ lastCall'.op = "subscribe"

\* the number of occurrences of h in list
Occurrences(list, h) == Cardinality({i \in 1..Len(list) : list[i] = h})

\* subscribe(kind, s) puts s at the end of kind's list, whether the list
\* existed or not and whether it held s or not, and leaves the other lists
C11_AppendStep ==
    SubscribeStep =>
        LET t == lastCall'.type
            h == lastCall'.handler
        IN /\ t \in DOMAIN subscribers'
           /\ subscribers'[t] = ListOf(t) \o <<h>>
           /\ Occurrences(subscribers'[t], h) = Occurrences(ListOf(t), h) + 1
           /\ DOMAIN subscribers' = DOMAIN subscribers \cup {t}
           /\ \A u \in DOMAIN subscribers : u # t => subscribers'[u] = subscribers[u]

\* the subscribers of an event are invoked in the order of the list, hence in
\* subscription order, once per occurrence
C11_InSubscriptionOrder ==
    /\ pc \in {"for", "handler"} /\ next # NoEvent =>
           /\ Len(invoked) <= Len(listAtPop)
           /\ \A i \in 1..Len(invoked) : invoked[i] = listAtPop[i]
    /\ pc = "loop" /\ next # NoEvent =>
           /\ invoked = listAtPop
           /\ \A h \in TableSubs :
                  Occurrences(invoked, h) = Occurrences(listAtPop, h)

\* C11: subscribe(kind, s) appends s at the end of kind's list, creating the
\* list when absent, and leaves every other kind's list untouched, so the
\* subscribers of a kind are invoked in subscription order; nothing detects
\* duplicates, so a subscriber subscribed n times to a kind is invoked n
\* times for each event of that kind.
C11_SubscribeAppends == []C11_InSubscriptionOrder /\ [][C11_AppendStep]_vars

\* an event was dispatched to a subscriber subscribed twice, between two others
C11_Witness ==
    /\ pc = "loop"
    /\ lastCall.op = "subscribe"
    /\ \E h \in TableSubs, g \in TableSubs :
           h # g /\ invoked = <<h, g, h>>

----------------------------------------------------------------------------
(* C12 Unsubscribe semantics *)

\* a step that is a call unsubscribe(type, handler), recorded in lastCall
UnsubscribeStep == lastCall' # lastCall /\ lastCall'.op = "unsubscribe"

\* the list without any occurrence of h, the other elements in their order
RECURSIVE Without(_, _)
Without(list, h) ==
    IF list = <<>> THEN <<>>
    ELSE IF Head(list) = h THEN Without(Tail(list), h)
         ELSE <<Head(list)>> \o Without(Tail(list), h)

\* what unsubscribe(kind, s) does to the table
C12_RemoveStep ==
    UnsubscribeStep =>
        LET t == lastCall'.type
            h == lastCall'.handler
        IN IF t \notin DOMAIN subscribers \/ Occurrences(ListOf(t), h) = 0
           THEN subscribers' = subscribers
           ELSE /\ DOMAIN subscribers' =
                       IF Without(subscribers[t], h) = <<>>
                       THEN DOMAIN subscribers \ {t}
                       ELSE DOMAIN subscribers
                /\ t \in DOMAIN subscribers' =>
                       subscribers'[t] = Without(subscribers[t], h)
                /\ \A u \in DOMAIN subscribers :
                       u # t => subscribers'[u] = subscribers[u]

\* the table never maps a kind to an empty list
C12_NoEmptyList == \A t \in DOMAIN subscribers : Len(subscribers[t]) > 0

\* C12: unsubscribe(kind, s) removes every occurrence of s from kind's list
\* and keeps the order of the remaining subscribers; when none remains the
\* kind's entry is deleted, so the table never maps a kind to an empty list;
\* when the kind has no entry or s is not in its list, the table's content
\* is unchanged.
C12_UnsubscribeSemantics == []C12_NoEmptyList /\ [][C12_RemoveStep]_vars

\* the last call was an unsubscribe that left its kind without an entry while
\* another kind keeps its list
C12_Witness ==
    /\ lastCall.op = "unsubscribe"
    /\ lastCall.type \notin DOMAIN subscribers
    /\ <<lastCall.type, lastCall.handler>> \in unsubbed
    /\ \E u \in DOMAIN subscribers : Len(subscribers[u]) = 2

----------------------------------------------------------------------------
(* C13 Draining flag discipline *)

\* a step in which an exception leaves the drain loop
EscapeStep == pc = "loop" /\ pc' = "idle" /\ popCount' = popCount + 1

\* the flag is set exactly while a publish made outside handlers is running
C13_FlagIffDraining == processing <=> pc # "idle"

\* leaving the loop clears the flag, by the loop's end or by an exception
C13_ClearedOnExit == pc # "idle" /\ pc' = "idle" => ~processing'

\* C13: processing is true exactly while a drain loop is active, from the
\* moment a top-level publish starts draining until that publish exits, and
\* false otherwise; it is cleared on every exit path of the top-level
\* publish, including an exception that escapes the per-handler catch.
C13_FlagDiscipline == []C13_FlagIffDraining /\ [][C13_ClearedOnExit]_vars

\* a publish was left by an exception, and the service is not draining
C13_Witness == pc = "idle" /\ escaped /\ ~processing /\ popCount >= 2

----------------------------------------------------------------------------
(* C14 No error reaches the caller *)

\* no publish made outside handlers has thrown
C14_NothingEscaped == ~escaped

\* a handler's throw leaves the drain running: publish has not exited
C14_FaultStaysInside ==
    pc = "handler" /\ pc' # "handler" /\ threwAt' # threwAt =>
        /\ processing'
        /\ stack' = stack
        /\ pc' \in {"for", "loop"}

\* a call made by a handler returns to that handler
C14_CallReturns ==
    pc = "handler" /\ calls' = calls + 1 =>
        pc' = "handler" /\ idx' = idx /\ stack' = stack /\ threwAt' = threwAt

\* C14: publish, subscribe and unsubscribe never raise under the documented
\* conditions (handler faults, events of a kind without subscribers,
\* unsubscribing an absent kind or subscriber); a handler fault is never
\* propagated out of publish, neither to the top-level publisher nor to a
\* handler that published re-entrantly.
C14_NoErrorReachesCaller ==
    /\ []C14_NothingEscaped
    /\ [][C14_FaultStaysInside /\ C14_CallReturns]_vars

\* a drain in which a handler threw, after an event without subscribers and
\* with an unsubscribe of a pair that is not in the table, is about to end
C14_Witness ==
    /\ pc = "loop"
    /\ queue = <<>>
    /\ threwAt # {}
    /\ popCount >= 2
    /\ \E p \in unsubbed : p[1] \notin DOMAIN subscribers
    /\ ~escaped

----------------------------------------------------------------------------
(* C15 Stock mutation *)

\* the running handler's step
HandleStep(h) == pc = "handler" /\ Current = h /\ pc' # "handler"

\* the stock after event e was applied with the given sign
StockWith(e, sign) ==
    [m \in MachineIds |->
        IF m = e.machineId THEN stockLevel[m] + sign * e.qty
        ELSE stockLevel[m]]

\* what each of the two handlers does to the stock, and that nothing else
\* touches it
C15_HandleStep ==
    /\ HandleStep("saleSubscriber") =>
           stockLevel' = IF next.type = "sale" THEN StockWith(next, -1)
                         ELSE stockLevel
    /\ HandleStep("refillSubscriber") =>
           stockLevel' = IF next.type = "refill" THEN StockWith(next, 1)
                         ELSE stockLevel
    /\ stockLevel' # stockLevel =>
           HandleStep("saleSubscriber") \/ HandleStep("refillSubscriber")

\* between publishes, each machine holds 10 minus its sales plus its refills
C15_StockIsSum ==
    pc = "idle" => \A m \in MachineIds : stockLevel[m] = InitialStock + net[m]

\* C15: for an event naming a known machine, MachineSaleSubscriber.handle
\* decreases exactly that machine's stock by the sold quantity of a sale and
\* MachineRefillSubscriber.handle increases it by the refill quantity of a
\* refill; each leaves the stock unchanged for events of any other kind and
\* never changes another machine; hence a machine's stockLevel after any
\* sequence of published events is 10 minus its sales plus its refills.
C15_StockMutation == []C15_StockIsSum /\ [][C15_HandleStep]_vars

\* under the wiring that hands both subscribers every kind, one machine was
\* sold from and refilled, another only sold from, a third left alone
C15_Witness ==
    /\ pc = "idle"
    /\ subscribers = CrossWiring
    /\ nPublished >= 3
    /\ \E m1, m2, m3 \in MachineIds :
           /\ stockLevel[m1] = InitialStock - 2 + 3
           /\ stockLevel[m2] = InitialStock - 1
           /\ stockLevel[m3] = InitialStock

----------------------------------------------------------------------------
(* C16 Mutation-before-watch ordering *)

\* what event e adds to the stock of its machine
Signed(e) == IF e.type = "sale" THEN -e.qty ELSE e.qty

\* when the watcher runs for an event, the stock it reads already holds
\* that event's quantity
C16_StockIncludesEvent ==
    WatchStep =>
        stockLevel[next.machineId] = InitialStock + net[next.machineId]

\* the watcher publishes the alert while handling the very event that takes
\* the stock across the threshold, and publishes nothing for any other event
C16_CrossingStep ==
    WatchStep =>
        LET after == stockLevel[next.machineId]
            before == after - Signed(next)
        IN /\ (before >= Threshold /\ after < Threshold)
                  <=> Published("low-stock")
           /\ (before < Threshold /\ after >= Threshold)
                  <=> Published("stock-ok")
           /\ (before < Threshold <=> after < Threshold)
                  <=> enqCount' = enqCount

\* C16: with the program's registration order, whenever
\* StockWarningSubscriber.handle runs for a Sale/Refill event the target
\* machine's stock already includes that event's quantity, so the
\* LowStockWarning/StockLevelOk is enqueued during the dispatch of the very
\* event that crosses the threshold, not one event later.
C16_MutationBeforeWatch ==
    []C16_StockIncludesEvent /\ [][C16_CrossingStep]_vars

\* the watcher is about to handle the sale that took a machine from at or
\* above the threshold to below it
C16_Witness ==
    /\ WatchStep
    /\ next.type = "sale"
    /\ stockLevel[next.machineId] < Threshold
    /\ stockLevel[next.machineId] + next.qty >= Threshold
    /\ next.machineId \notin below

----------------------------------------------------------------------------
(* C17 Below-set consistency *)

\* the dispatcher is idle: not processing, nothing queued
DispatcherIdle == ~processing /\ queue = <<>>

\* C17: with the program's wiring, whenever the dispatcher is idle
\* (processing false, queue empty) the below set is exactly the set of
\* machines whose stockLevel is below the threshold; this holds initially and
\* after every top-level publish of a Sale/Refill event.
C17_BelowSetConsistency ==
    DispatcherIdle => below = {m \in MachineIds : stockLevel[m] < Threshold}

\* the dispatcher is idle after the publish that took one machine below the
\* threshold, the other machines being at or above it
C17_Witness ==
    /\ DispatcherIdle
    /\ pc = "idle"
    /\ Len(alerts) = 1
    /\ \E m \in MachineIds :
           /\ below = {m}
           /\ stockLevel[m] = Threshold - 1
           /\ alerts[1].during = nPublished

----------------------------------------------------------------------------
(* C18 Bounded cascade and termination *)

\* the events pushed before the running (or last) top-level publish
PushedBefore ==
    (nPublished - 1)
        + Cardinality({i \in 1..Len(alerts) : alerts[i].during < nPublished})

\* the events dispatched by the running (or last) top-level publish
DispatchedNow == popCount - PushedBefore

\* at most one event is pending, and a publish dispatches one or two events
C18_Bounded ==
    /\ Len(queue) <= 1
    /\ nPublished >= 1 => DispatchedNow \in 0..2
    /\ nPublished >= 1 /\ pc = "idle" => DispatchedNow \in 1..2
    /\ pc \in {"for", "handler"} /\ next.type \in {"low-stock", "stock-ok"} =>
           queue = <<>>

\* the steps a running publish has left at most: 8 for each of the two events
\* it may still pop, 2 for each subscriber the for loop has not finished
StepsLeft ==
    8 * (2 - DispatchedNow)
        + (IF pc \in {"for", "handler"} THEN 2 * (Len(snap) - idx + 1) ELSE 0)
        - (IF pc = "handler" THEN 1 ELSE 0)

\* a running publish can always take a step, and each step that does not end
\* it uses up StepsLeft
C18_Progress == pc # "idle" => StepsLeft >= 0 /\ ENABLED ProgramDrain

C18_Decrease == pc # "idle" /\ pc' # "idle" => StepsLeft' < StepsLeft

\* C18: every top-level publish of a Sale or Refill event terminates after
\* dispatching at most two events (the event itself and at most one alert),
\* and the pending queue never holds more than one event.
C18_BoundedCascade ==
    /\ []C18_Bounded
    /\ []C18_Progress
    /\ [][C18_Decrease]_vars

\* a publish returned after dispatching two events
C18_Witness ==
    /\ pc = "idle"
    /\ nPublished >= 1
    /\ DispatchedNow = 2
    /\ Len(out) = 2

----------------------------------------------------------------------------
(* C19 Alternation of alerts *)

\* the alerts published for machine m, in order
AlertsOf(m) == SelectSeq(alerts, LAMBDA a : a.machineId = m)

\* C19: for each machine, the LowStockWarning and StockLevelOk events
\* published by StockWarningSubscriber strictly alternate, and the first one
\* is a LowStockWarning, every machine being at or above the threshold when
\* the subscriber was constructed.
C19_AlertsAlternate ==
    \A m \in MachineIds :
        /\ \A i \in 1..Len(AlertsOf(m)) :
               AlertsOf(m)[i].type =
                   IF i % 2 = 1 THEN "low-stock" ELSE "stock-ok"
        /\ m \in below <=> Len(AlertsOf(m)) % 2 = 1

\* a machine's warning was followed by its recovery, and another sale of that
\* machine below or above the threshold published nothing
C19_Witness ==
    /\ pc = "idle"
    /\ \E m \in MachineIds :
           /\ Len(AlertsOf(m)) = 2
           /\ AlertsOf(m)[2].during < nPublished
           /\ net[m] \in {-6, -5}

----------------------------------------------------------------------------
(* C20 Residual queue after an escaped exception *)

\* the pending events are the pushed and not yet popped ones, in push order
C20_ResidualKept ==
    /\ Len(queue) = enqCount - popCount
    /\ \A i \in 1..Len(queue) : queue[i].uid = popCount + i

\* a publish that returned without throwing left nothing pending
C20_DrainedOnReturn == pc = "idle" /\ ~escaped => queue = <<>>

\* the escaping exception reaches the caller with the flag cleared, drops the
\* popped event and keeps the rest of the queue; every pop takes the oldest
\* pending event, which is dispatched unless its type() throws
C20_PopStep ==
    /\ EscapeStep =>
           /\ TypeThrows(Head(queue))
           /\ escaped'
           /\ ~processing'
           /\ queue' = Tail(queue)
           /\ next' = NoEvent
    /\ popCount' # popCount =>
           /\ popCount' = popCount + 1
           /\ Head(queue).uid = popCount'
           /\ queue' = Tail(queue)
           /\ TypeThrows(Head(queue)) <=> EscapeStep
           /\ ~TypeThrows(Head(queue)) => next' = Head(queue)

\* C20: if an exception escapes the drain loop outside the per-handler catch
\* (the popped event's type() throws), the top-level publish propagates it
\* with processing reset to false; the event being processed is dropped and
\* the events still in the queue stay there, in order; the next top-level
\* publish pops them ahead of the newly published event, in FIFO order, and
\* dispatches each one whose type() returns; a publish that returns without
\* throwing leaves nothing pending.
C20_ResidualQueue ==
    /\ []C20_ResidualKept
    /\ []C20_DrainedOnReturn
    /\ [][C20_PopStep]_vars

\* the second top-level publish has popped the event the first one left
\* behind when it threw, and its own event waits behind it
C20_Witness ==
    /\ pc = "loop"
    /\ nPublished = 2
    /\ ~escaped
    /\ next = LowStockWarningEvent("001", 3)
    /\ queue = <<MachineSaleEvent(1, "001", 4)>>

\* the statement without its exception: every event left in the queue is
\* dispatched by the next top-level publish, so an escaping exception never
\* drops an event that was pending when the publish it ends was called
C20_Original == [][EscapeStep => popCount + 1 > resid]_vars

====
